---------------------------- MODULE Spec2Model ----------------------------
(***************************************************************************)
(* vite-dev-auth-plugin: the authenticated dev proxy.                      *)
(*                                                                         *)
(* The repository holds the plugin twice: the single-file build            *)
(* src/src/index.ts (variant "index") and the modular build                *)
(* src/src/proxyHandler.ts with cookieUtils / options / iframeScript /     *)
(* plugin entry in src/unnamed/part_003, part_001, part_000, part_002      *)
(* (variant "modular").  The variable `variant` says which build runs.     *)
(*                                                                         *)
(* Strings are sequences of one-character strings, so that split, indexOf, *)
(* slice and trim are computed as JavaScript computes them.                *)
(*                                                                         *)
(* One action is one macrotask of the Node event loop together with the    *)
(* promise jobs (microtasks) it leaves behind: Node drains the microtask   *)
(* queue before it runs the next I/O callback, so no handler of the plugin *)
(* can observe the state between a promise settling and its .finally /     *)
(* await continuation.                                                      *)
(***************************************************************************)
EXTENDS Integers, Sequences, FiniteSets, TLC

\* ---------------------------------------------------------------- bounds
MaxReqs == 2
\* logins that may be started in one run (the startup one included)
MaxLogins == 3
\* Set-Cookie values in one header list, and direct storeCookies calls in a
\* row (the pure-function specifications)
MaxLines == 2
MaxCalls == 2
\* rules in one apiPaths array
MaxRules == 2
\* window message events delivered to one page
MaxMsgs == 2

\* ------------------------------------------------- JavaScript string helpers
\* String.prototype.indexOf(c), 0-based, -1 when absent
RECURSIVE indexOfFrom(_, _, _)
indexOfFrom(s, c, i) ==
  IF i > Len(s) THEN -1
  ELSE IF s[i] = c THEN i - 1
  ELSE indexOfFrom(s, c, i + 1)

indexOf(s, c) == indexOfFrom(s, c, 1)

\* String.prototype.slice(from, to), 0-based, half-open
slice(s, from, to) == SubSeq(s, from + 1, to)

\* String.prototype.split(c): always at least one part
RECURSIVE split(_, _)
split(s, c) ==
  LET i == indexOf(s, c)
  IN IF i = -1 THEN <<s>>
     ELSE <<slice(s, 0, i)>> \o split(slice(s, i + 1, Len(s)), c)

IsSpace(ch) == ch = " "

RECURSIVE trimStart(_)
trimStart(s) ==
  IF s # <<>> /\ IsSpace(Head(s)) THEN trimStart(Tail(s)) ELSE s

RECURSIVE trimEnd(_)
trimEnd(s) ==
  IF s # <<>> /\ IsSpace(s[Len(s)]) THEN trimEnd(SubSeq(s, 1, Len(s) - 1)) ELSE s

\* String.prototype.trim()
trim(s) == trimEnd(trimStart(s))

\* Array.prototype.join(sep) over a sequence of strings
RECURSIVE join(_, _)
join(parts, sep) ==
  IF parts = <<>> THEN <<>>
  ELSE IF Len(parts) = 1 THEN parts[1]
  ELSE parts[1] \o sep \o join(Tail(parts), sep)

\* ------------------------------------------------------------- cookie jar
\* CookieJar = Map<string, string>: a Map enumerates in insertion order, and
\* set() on a present key keeps the key's place.  A jar is a sequence of
\* <<name, value>> pairs with distinct names.
JarHas(jar, k) == \E i \in 1..Len(jar) : jar[i][1] = k

\* Map.prototype.set
JarSet(jar, k, v) ==
  IF JarHas(jar, k)
  THEN [i \in 1..Len(jar) |-> IF jar[i][1] = k THEN <<k, v>> ELSE jar[i]]
  ELSE Append(jar, <<k, v>>)

\* a header that may be absent: headers["set-cookie"] (string[] | undefined)
NoHeader == [present |-> FALSE, lines |-> <<>>]
Header(ls) == [present |-> TRUE, lines |-> ls]

\* The outcome of one storeCookies call: the jar it leaves, and whether it
\* raised (a TypeError) instead of returning.
Stored(jar, threw) == [jar |-> jar, threw |-> threw]

\* part_003 storeCookies, the forEach over the lines.  `value` is the second
\* element of nv.split("="): undefined when nv holds no "=", and then
\* value.trim() raises TypeError, which ends the forEach with the earlier
\* lines already stored.
RECURSIVE storeLines(_, _, _)
storeLines(jar, lines, i) ==
  IF i > Len(lines) THEN Stored(jar, FALSE)
  ELSE LET nv == split(lines[i], ";")[1]
           parts == split(nv, "=")
           name == parts[1]
       IN IF name = <<>> THEN storeLines(jar, lines, i + 1)
          ELSE IF Len(parts) < 2 THEN Stored(jar, TRUE)
          ELSE storeLines(JarSet(jar, trim(name), trim(parts[2])), lines, i + 1)

\* part_003 storeCookies (the modular build)
storeCookies(jar, raw) ==
  IF ~raw.present THEN Stored(jar, FALSE)
  ELSE storeLines(jar, raw.lines, 1)

\* index.ts storeCookies, the for-of over the lines
RECURSIVE storeLines_index(_, _, _)
storeLines_index(jar, lines, i) ==
  IF i > Len(lines) THEN Stored(jar, FALSE)
  ELSE LET pair == split(lines[i], ";")[1]
           idx == indexOf(pair, "=")
       IN IF idx > 0
          THEN storeLines_index(
                 JarSet(jar, trim(slice(pair, 0, idx)),
                             trim(slice(pair, idx + 1, Len(pair)))),
                 lines, i + 1)
          ELSE storeLines_index(jar, lines, i + 1)

\* index.ts storeCookies (the single-file build)
storeCookies_index(jar, raw) ==
  IF ~raw.present THEN Stored(jar, FALSE)
  ELSE storeLines_index(jar, raw.lines, 1)

\* the storeCookies of the build that runs
StoreCookiesOf(v, jar, raw) ==
  IF v = "index" THEN storeCookies_index(jar, raw) ELSE storeCookies(jar, raw)

\* jarToString: Array.from(jar.entries()).map(([k, v]) => k=v).join("; ")
jarToString(jar) ==
  join([i \in 1..Len(jar) |-> jar[i][1] \o <<"=">> \o jar[i][2]], <<";", " ">>)

\* ------------------------------------------------------ unauthDetector
\* headers.location, which may be absent
NoLocation == [present |-> FALSE, v |-> <<>>]
Location(s) == [present |-> TRUE, v |-> s]

\* the i flag of the regular expression, over the letters the pattern names
Lower(ch) ==
  CASE ch = "L" -> "l" [] ch = "O" -> "o" [] ch = "G" -> "g" [] ch = "I" -> "i"
    [] ch = "N" -> "n" [] ch = "S" -> "s" [] OTHER -> ch

LowerStr(s) == [i \in 1..Len(s) |-> Lower(s[i])]

\* an unanchored match of the literal `pat` somewhere in s
Includes(s, pat) ==
  \E i \in 1..(Len(s) - Len(pat) + 1) : SubSeq(s, i, i + Len(pat) - 1) = pat

\* the regular expression without its i flag
LoginOrSsoTest_caseSensitive(s) ==
  \/ Includes(s, <<"/", "l", "o", "g", "i", "n", "/">>)
  \/ Includes(s, <<"/", "s", "s", "o", "/">>)

\* /\/(login|sso)\//i.test(s)
LoginOrSsoTest(s) ==
  \/ Includes(LowerStr(s), <<"/", "l", "o", "g", "i", "n", "/">>)
  \/ Includes(LowerStr(s), <<"/", "s", "s", "o", "/">>)

\* the default unauthDetector of normalizeOptions
unauthDetector(status, headers) ==
  \/ status = 401
  \/ /\ status = 302
     /\ LoginOrSsoTest(IF headers.location.present THEN headers.location.v ELSE <<>>)

\* ------------------------------------------------------- the proxy's inputs
\* the Cookie header of an outbound request: getHeader("cookie") is
\* string | undefined
NoCookie == [set |-> FALSE, v |-> <<>>]
Cookie(s) == [set |-> TRUE, v |-> s]

\* what browsers send with a request
ClientCookies == {NoCookie, Cookie(<<"c", "=", "3">>)}

\* Set-Cookie header lists of the validation endpoint: none, a session
\* cookie with an attribute, and a rotated one followed by an entry with
\* no "="
LoginSetCookies ==
  { NoHeader,
    Header(<< <<"s", "=", "1", ";", " ", "P", "=", "/">> >>),
    Header(<< <<"s", "=", "2">>, <<"b", "a", "d">> >>) }

\* Set-Cookie header lists of the target origin
UpstreamSetCookies ==
  { NoHeader,
    Header(<< <<"a", "=", "1">> >>),
    Header(<< <<"b", "a", "d">> >>) }

\* status line and Location of the target origin's responses
UpstreamStatuses ==
  { [statusCode |-> 200, location |-> NoLocation],
    [statusCode |-> 401, location |-> NoLocation],
    [statusCode |-> 302, location |-> Location(<<"/", "S", "S", "O", "/", "x">>)],
    [statusCode |-> 302, location |-> Location(<<"/", "x">>)] }

\* how an axios call settles: a 2xx response with its headers, or a
\* rejection (transport error, non-2xx status)
AxiosOutcomes ==
  {[kind |-> "response", setCookie |-> h] : h \in LoginSetCookies}
    \cup {[kind |-> "error", setCookie |-> NoHeader]}

\* ------------------------------------------------------------------ state
VARIABLES
  variant,        \* which build runs: "index" or "modular"
  headlessLogin,  \* options.headlessLogin is a request config (TRUE) or false
  ws,             \* options.ws
  clientCookie,   \* the Cookie header the browser sends with its requests
  installed,      \* server.middlewares.use(proxy) has run
  started,        \* configureServer has been called
  jar,            \* the CookieJar shared by the plugin and the proxy
  globalRefresh,  \* index.ts globalRefresh / proxyHandler.ts refreshingPromise:
                  \* 0 (undefined) or the login the promise belongs to
  activeRefresh,  \* createApiProxy's activeRefresh(Promise): 0 or a login
  logins,         \* the doHeadlessLogin calls made so far, in order
  reqs,           \* the proxied requests
  uncaught,       \* exceptions and rejections no handler caught
  call,           \* the last direct call of storeCookies: its arguments and
                  \* what it left (the pure-function specifications)
  detected,       \* a direct call of the default unauthDetector
  matched,        \* a direct call of the proxy's pathFilter
  page,           \* a browser page the injected iframe script runs on
  apiPathsOpt,       \* opts.apiPaths
  paths,          \* the path of each request the middleware was handed
  last            \* the last response handed to the proxyRes hook

\* fixed once the plugin is constructed (`call` moves only in SpecMerge)
options == <<variant, headlessLogin, ws, clientCookie, call, detected, matched,
             page, apiPathsOpt>>

\* the options, and what is kept of the requests' paths and of the last
\* response for the specifications that watch them
config == <<options, paths, last>>

vars == <<variant, headlessLogin, ws, clientCookie, installed, started, jar,
          globalRefresh, activeRefresh, logins, reqs, uncaught, call,
          detected, matched, page, apiPathsOpt, paths, last>>

Reqs == 1..MaxReqs

\* a request the proxy has not seen yet
NoReq ==
  [ chan |-> "none",       \* "http" or "ws" once the proxy handles it
    pc |-> "none",         \* the proxyReq hook's async body: "awaitGate",
                           \* then "composed" or "rejected"
    header |-> NoCookie,   \* the outbound request's Cookie header
    sent |-> FALSE,        \* the transport has sent the request's headers;
                           \* from then on `header` is what went upstream
    awaiting |-> 0,        \* the promise gateRefresh() awaits, 0 for none
    during |-> {},         \* the logins in flight when the hook ran
    lastLogin |-> 0,       \* the last login started before the hook ran
    res |-> "open",        \* the client's ServerResponse or Socket: "open";
                           \* "received" once the proxyRes hook has run;
                           \* "headersSent"; "closed"; "sent500" after the
                           \* error hook's reply; "destroyed"
    unauth |-> FALSE ]     \* unauthDetector's verdict on the response

\* one doHeadlessLogin call
Login(label, state, outcome, got) ==
  [ label |-> label,       \* "startup" or "refresh"
    state |-> state,       \* "pending" (awaiting axios) or "settled"
    outcome |-> outcome,   \* "none", or what it logged: "ok", "failed";
                           \* "noop" when headlessLogin is false
    got |-> got ]          \* the cookies its response carried, as a jar

Pending == {k \in 1..Len(logins) : logins[k].state = "pending"}

Alive == uncaught = {}

\* `await p` resumes once p has settled; awaiting nothing resumes at once
HasSettled(p) == IF p = 0 THEN TRUE ELSE logins[p].state = "settled"

\* a promise job is runnable: the async body of a proxyReq hook whose awaited
\* promise has settled
JobQueued(r) == reqs[r].pc = "awaitGate" /\ HasSettled(reqs[r].awaiting)

\* Node runs no timer or I/O callback while a promise job is runnable
Idle == Alive /\ \A r \in 1..MaxReqs : ~JobQueued(r)

NoCall == [n |-> 0, raw |-> NoHeader, prev |-> NoHeader, before |-> <<>>,
           after |-> <<>>, threw |-> FALSE]

\* no detector call, no pathFilter call, no page
NoDetected == [done |-> FALSE]
NoMatched == [done |-> FALSE]
NoPage == [ran |-> FALSE]

\* opts.apiPaths: undefined, or an array (an empty array is truthy)
NoApiPaths == [present |-> FALSE, rules |-> <<>>]
ApiPaths(rules) == [present |-> TRUE, rules |-> rules]

\* no path kept, no response kept
NoPaths == [r \in Reqs |-> <<>>]
NoLast == [r |-> 0, status |-> [statusCode |-> 0, location |-> NoLocation],
           setCookie |-> NoHeader, jar |-> <<>>, active |-> 0, n |-> 0]

\* apiPaths left unconfigured, paths and responses not kept
GateUnused == apiPathsOpt = NoApiPaths /\ paths = NoPaths /\ last = NoLast

\* the variables of the pure-function and page specifications, unused
PureUnused ==
  detected = NoDetected /\ matched = NoMatched /\ page = NoPage /\ GateUnused

\* the plugin as authDevPlugin(opts) returns it, before configureServer
InitWith(wsChoices) ==
  /\ variant \in {"index", "modular"}
  /\ headlessLogin \in BOOLEAN
  /\ ws \in wsChoices
  /\ clientCookie \in ClientCookies
  /\ installed = FALSE
  /\ started = FALSE
  /\ jar = <<>>
  /\ globalRefresh = 0
  /\ activeRefresh = 0
  /\ logins = <<>>
  /\ reqs = [r \in Reqs |-> NoReq]
  /\ uncaught = {}
  /\ call = NoCall
  /\ PureUnused

\* options.ws left at its default
Init == InitWith({FALSE})

\* ------------------------------------------------------------ doHeadlessLogin
\* doHeadlessLogin without its `if (!headlessLogin) return;`
LoginStart_always(label) == Login(label, "pending", "none", <<>>)

\* doHeadlessLogin up to its first await: with headlessLogin false it returns
\* at once, otherwise it suspends in `await axios(...)`
LoginStart(label) ==
  IF headlessLogin
  THEN Login(label, "pending", "none", <<>>)
  ELSE Login(label, "settled", "noop", <<>>)

\* doHeadlessLogin from the axios call's settling to its return: the try
\* block's storeCookies and log, or the catch block's log.  It never raises.
LoginSettle(v, j, out) ==
  IF out.kind = "error"
  THEN [jar |-> j, outcome |-> "failed"]
  ELSE LET st == StoreCookiesOf(v, j, out.setCookie)
       IN [jar |-> st.jar, outcome |-> IF st.threw THEN "failed" ELSE "ok"]

\* the promise stored without its .finally
FinallyClear_never(handle, k) == handle

\* .finally(() => (globalRefresh = undefined)) / (activeRefresh = undefined)
FinallyClear(handle, k) == IF handle = k THEN 0 ELSE handle

\* configureServer: the startup login.  index.ts records its promise in
\* globalRefresh; the modular build awaits it without recording it
\* (refreshingPromise is never assigned).  With headlessLogin false the login
\* returns at once and the proxy is installed by the same chain of promise jobs.
\* the proxy installed before the startup login has settled
InstalledOnStart_eager == TRUE

\* configureServer reaches server.middlewares.use(proxy) only past
\* `await doHeadlessLogin(...)`: in the call's own chain of promise jobs when
\* the login returned at once, else when the login settles
InstalledOnStart == ~headlessLogin

ConfigureServer ==
  /\ Idle
  /\ ~started
  /\ started' = TRUE
  /\ logins' = Append(logins, LoginStart("startup"))
  /\ globalRefresh' = IF headlessLogin /\ variant = "index" THEN Len(logins) + 1 ELSE 0
  /\ installed' = InstalledOnStart
  /\ UNCHANGED <<config, jar, activeRefresh, reqs, uncaught>>

\* The axios call of login k settles; doHeadlessLogin runs to its return, the
\* .finally callback clears the handle, and for the startup login the
\* `await` in configureServer resumes and installs the proxy.
AxiosSettles(k, out) ==
  /\ Idle
  /\ k \in Pending
  /\ LET done == LoginSettle(variant, jar, out)
     IN /\ jar' = done.jar
        /\ logins' = [logins EXCEPT ![k] =
                        Login(@.label, "settled", done.outcome,
                              IF done.outcome = "ok"
                              THEN StoreCookiesOf(variant, <<>>, out.setCookie).jar
                              ELSE <<>>)]
  /\ globalRefresh' = FinallyClear(globalRefresh, k)
  /\ activeRefresh' = FinallyClear(activeRefresh, k)
  /\ installed' = (installed \/ logins[k].label = "startup")
  /\ UNCHANGED <<config, started, reqs, uncaught>>

\* --------------------------------------------------------------- the proxy
\* the request slots are taken in order
NextFree(r) == reqs[r].chan = "none" /\ \A q \in Reqs : q < r => reqs[q].chan # "none"

\* gateRefresh(): the promise it awaits, 0 when the gate variable is undefined
gateRefresh == globalRefresh

\* the two parts joined as they come
Combine_unfiltered(existing, fromJar) ==
  join(<<IF existing.set THEN existing.v ELSE <<>>, fromJar>>, <<";", " ">>)

\* [existing, fromJar].filter(Boolean).join("; "): undefined and "" are dropped
Combine(existing, fromJar) ==
  join(SelectSeq(<<IF existing.set THEN existing.v ELSE <<>>, fromJar>>,
                 LAMBDA part : part # <<>>),
       <<";", " ">>)

\* on.proxyReq: the transport has made the outbound request for a request on
\* a matching path and calls the hook.  The hook starts its async body, which
\* runs to `await gateRefresh()`, and returns; nothing of the returned promise
\* reaches the transport.
proxyReqHook(r) ==
  /\ Idle
  /\ installed
  /\ NextFree(r)
  /\ reqs' = [reqs EXCEPT ![r] =
       [@ EXCEPT !.chan = "http", !.pc = "awaitGate", !.header = clientCookie,
                 !.awaiting = gateRefresh, !.during = Pending,
                 !.lastLogin = Len(logins)]]
  /\ UNCHANGED <<options, installed, started, jar,
                 globalRefresh, activeRefresh, logins, uncaught>>

\* the hook, the request's path not kept
ProxyReq(r) == proxyReqHook(r) /\ UNCHANGED <<paths, last>>

\* the rest of the async body of on.proxyReq, once the awaited promise has
\* settled: compose the Cookie header and set it.  setHeader raises
\* ERR_HTTP_HEADERS_SENT on a request whose headers have gone out; index.ts
\* swallows the rejection (.catch), the modular build discards the promise
\* (void), which leaves the rejection unhandled.
Compose(r) ==
  /\ Alive
  /\ reqs[r].pc = "awaitGate"
  /\ HasSettled(reqs[r].awaiting)
  /\ LET combo == Combine(reqs[r].header, jarToString(jar))
         raises == combo # <<>> /\ reqs[r].sent
     IN /\ reqs' = [reqs EXCEPT ![r] =
             [@ EXCEPT !.pc = IF raises THEN "rejected" ELSE "composed",
                       !.header = IF combo # <<>> /\ ~raises THEN Cookie(combo) ELSE @]]
        /\ uncaught' = IF raises /\ variant = "modular"
                       THEN uncaught \cup {"proxyReq: ERR_HTTP_HEADERS_SENT"}
                       ELSE uncaught
  /\ UNCHANGED <<config, installed, started, jar,
                 globalRefresh, activeRefresh, logins>>

\* The transport writes the outbound request's headers to the target origin.
\* It does so when the client's request ends or its first body chunk is
\* piped, whether or not the hook's async body has run: for a request with no
\* body that is a process.nextTick callback of the tick that ran the hook,
\* and Node drains the nextTick queue before the promise jobs.
TransportSend(r) ==
  /\ Alive
  /\ \A q \in Reqs : q # r => ~JobQueued(q)
  /\ reqs[r].chan = "http"
  /\ ~reqs[r].sent
  /\ reqs[r].res = "open"
  /\ reqs' = [reqs EXCEPT ![r] = [@ EXCEPT !.sent = TRUE]]
  /\ UNCHANGED <<config, installed, started, jar,
                 globalRefresh, activeRefresh, logins, uncaught>>

\* the `if (!activeRefresh)` test left out
ShouldRefresh_unguarded(unauth, active) == unauth

\* if (unauthDetector(...)) { if (!activeRefresh) { ... } }
ShouldRefresh(unauth, active) == unauth /\ active = 0

\* on.proxyRes: store the response's cookies; on an unauthenticated response
\* with no refresh active, start one.  A TypeError out of storeCookies leaves
\* the hook before the detector runs.
proxyResHook(r, status, setCookie) ==
  /\ Idle
  /\ reqs[r].chan = "http"
  /\ reqs[r].sent
  /\ reqs[r].res = "open"
  /\ LET st == StoreCookiesOf(variant, jar, setCookie)
         unauth == unauthDetector(status.statusCode, status)
         refresh == ~st.threw /\ ShouldRefresh(unauth, activeRefresh)
         login == LoginStart("refresh")
     IN /\ refresh => Len(logins) < MaxLogins
        /\ jar' = st.jar
        /\ uncaught' = IF st.threw THEN uncaught \cup {"proxyRes: TypeError"}
                       ELSE uncaught
        /\ logins' = IF refresh THEN Append(logins, login) ELSE logins
        /\ activeRefresh' = IF refresh /\ login.state = "pending"
                            THEN Len(logins) + 1 ELSE activeRefresh
        /\ reqs' = [reqs EXCEPT ![r] =
             [@ EXCEPT !.res = "received", !.unauth = ~st.threw /\ unauth]]
  /\ UNCHANGED <<options, installed, started, globalRefresh>>

\* the hook, the response not kept
ProxyRes(r, status, setCookie) ==
  proxyResHook(r, status, setCookie) /\ UNCHANGED <<paths, last>>

\* a transport that holds an unauthenticated response while a refresh runs
Deliverable_afterRefresh(r) ==
  reqs[r].res = "received" /\ (reqs[r].unauth => activeRefresh = 0)

\* selfHandleResponse is unset: once on.proxyRes has returned, the transport
\* copies the response to the client; nothing the hook started is awaited
Deliverable(r) == reqs[r].res = "received"

\* the transport writes the response's status and headers to the client
Deliver(r) ==
  /\ Idle
  /\ Deliverable(r)
  /\ reqs' = [reqs EXCEPT ![r] = [@ EXCEPT !.res = "headersSent"]]
  /\ UNCHANGED <<config, installed, started, jar,
                 globalRefresh, activeRefresh, logins, uncaught>>

\* the response ends and the client's connection closes
Finish(r) ==
  /\ Idle
  /\ reqs[r].res = "headersSent"
  /\ reqs' = [reqs EXCEPT ![r] = [@ EXCEPT !.res = "closed"]]
  /\ UNCHANGED <<config, installed, started, jar,
                 globalRefresh, activeRefresh, logins, uncaught>>

\* a WebSocket upgrade on a matching path: proxied when options.ws is set;
\* the transport emits proxyReqWs, for which the plugin registers no hook
WsUpgrade(r) ==
  /\ Idle
  /\ installed
  /\ ws
  /\ NextFree(r)
  /\ reqs' = [reqs EXCEPT ![r] = [@ EXCEPT !.chan = "ws"]]
  /\ UNCHANGED <<config, installed, started, jar,
                 globalRefresh, activeRefresh, logins, uncaught>>

\* what on.error leaves of the ServerResponse or Socket it was handed:
\* writeHead(500) and end() on a response that is not closed, destroy(err) on
\* a socket that is not destroyed
AfterError(chan, res) ==
  IF chan = "http"
  THEN (IF res \in {"open", "received"} THEN "sent500" ELSE res)
  ELSE "destroyed"

\* on.error: log, then reply or destroy.  writeHead raises
\* ERR_HTTP_HEADERS_SENT on a response whose headers were written, and the
\* hook tests res.closed only.
ProxyError(r) ==
  /\ Idle
  /\ reqs[r].chan # "none"
  /\ reqs[r].res \in {"open", "received", "headersSent", "closed"}
  /\ reqs' = [reqs EXCEPT ![r] = [@ EXCEPT !.res = AfterError(reqs[r].chan, @)]]
  /\ uncaught' = IF reqs[r].chan = "http" /\ reqs[r].res = "headersSent"
                 THEN uncaught \cup {"error: ERR_HTTP_HEADERS_SENT"}
                 ELSE uncaught
  /\ UNCHANGED <<config, installed, started, jar,
                 globalRefresh, activeRefresh, logins>>

\* The gate and the cookie flow: every action that reads or writes the jar,
\* the gate variables or the logins.
Next ==
  \/ ConfigureServer
  \/ \E k \in 1..MaxLogins, out \in AxiosOutcomes : AxiosSettles(k, out)
  \/ \E r \in Reqs : ProxyReq(r)
  \/ \E r \in Reqs : Compose(r)
  \/ \E r \in Reqs : TransportSend(r)
  \/ \E r \in Reqs, st \in UpstreamStatuses, sc \in UpstreamSetCookies : ProxyRes(r, st, sc)

Spec == Init /\ [][Next]_vars

\* The plugin's own steps are taken when they can be: Vite calls
\* configureServer, a runnable promise job runs, the transport sends.  Nothing
\* obliges the validation endpoint or the target origin to answer.
FairSpec ==
  /\ Spec
  /\ WF_vars(ConfigureServer)
  /\ WF_vars(\E r \in Reqs : Compose(r))
  /\ WF_vars(\E r \in Reqs : TransportSend(r))

\* The proxy with the client side of every channel: delivery of the response,
\* WebSocket upgrades and the error hook.
InitFull == InitWith(BOOLEAN)

NextFull ==
  \/ Next
  \/ \E r \in Reqs : Deliver(r)
  \/ \E r \in Reqs : Finish(r)
  \/ \E r \in Reqs : WsUpgrade(r)
  \/ \E r \in Reqs : ProxyError(r)

SpecFull == InitFull /\ [][NextFull]_vars

\* ------------------------------------------------ storeCookies on its own
\* Set-Cookie values: no "=", plain pairs, a pair with attributes, an empty
\* name, a value that holds "=", padding
SampleLines ==
  { <<"b", "a", "d">>,
    <<"a", "=", "1">>,
    <<"a", "=", "2">>,
    <<"b", "=", "2", ";", " ", "P", "=", "/">>,
    <<"=", "x">>,
    <<"t", "=", "x", "=", "=", ";", " ", "P", "=", "/">>,
    <<" ", "b", " ", "=", " ", "1", " ">> }

RECURSIVE SeqsUpTo(_, _)
SeqsUpTo(S, n) ==
  IF n = 0 THEN {<<>>}
  ELSE LET shorter == SeqsUpTo(S, n - 1)
       IN shorter \cup {Append(q, x) : q \in shorter, x \in S}

\* headers["set-cookie"]: undefined, or an array of values
RawInputs == {NoHeader} \cup {Header(ls) : ls \in SeqsUpTo(SampleLines, MaxLines)}

InitMerge ==
  /\ variant \in {"index", "modular"}
  /\ headlessLogin = FALSE
  /\ ws = FALSE
  /\ clientCookie = NoCookie
  /\ installed = FALSE
  /\ started = FALSE
  /\ jar \in {<<>>, << <<<<"a">>, <<"0">>>> >>}
  /\ globalRefresh = 0
  /\ activeRefresh = 0
  /\ logins = <<>>
  /\ reqs = [r \in Reqs |-> NoReq]
  /\ uncaught = {}
  /\ call = NoCall
  /\ PureUnused

\* storeCookies(jar, raw), called directly
StoreCall(raw) ==
  /\ call.n < MaxCalls
  /\ LET st == StoreCookiesOf(variant, jar, raw)
     IN /\ jar' = st.jar
        /\ call' = [n |-> call.n + 1, raw |-> raw, prev |-> call.raw,
                    before |-> jar, after |-> st.jar, threw |-> st.threw]
  /\ UNCHANGED <<variant, headlessLogin, ws, clientCookie, installed, started,
                 globalRefresh, activeRefresh, logins, reqs, uncaught,
                 detected, matched, page, apiPathsOpt, paths, last>>

NextMerge == \E raw \in RawInputs : StoreCall(raw)

SpecMerge == InitMerge /\ [][NextMerge]_vars

\* ------------------------------------------- the proxyReq hook on its own
\* Cookie headers of the client's request: none, an empty one, one cookie,
\* and a cookie the browser keeps under a name the target origin also set
ComposeClientCookies == ClientCookies \cup {Cookie(<<>>), Cookie(<<"a", "=", "9">>)}

\* The proxy installed with headless login off, over a jar that earlier
\* responses have filled; requests arrive and their hooks run, and nothing
\* else happens.
InitCompose ==
  /\ variant \in {"index", "modular"}
  /\ headlessLogin = FALSE
  /\ ws = FALSE
  /\ clientCookie \in ComposeClientCookies
  /\ installed = TRUE
  /\ started = TRUE
  /\ jar \in {StoreCookiesOf(variant, <<>>, raw).jar : raw \in RawInputs}
  /\ globalRefresh = 0
  /\ activeRefresh = 0
  /\ logins = <<LoginStart("startup")>>
  /\ reqs = [r \in Reqs |-> NoReq]
  /\ uncaught = {}
  /\ call = NoCall
  /\ PureUnused

NextCompose ==
  \/ \E r \in Reqs : ProxyReq(r)
  \/ \E r \in Reqs : Compose(r)

SpecCompose == InitCompose /\ [][NextCompose]_vars

\* ---------------------------------------------- unauthDetector on its own
\* proxyRes.statusCode ?? 0
DetectStatuses == {0, 200, 301, 302, 401, 403}

\* headers.location: absent, or a redirect target
DetectLocations ==
  { NoLocation,
    Location(<<"/", "s", "s", "o", "/", "c", "a", "l", "l", "b", "a", "c", "k">>),
    Location(<<"/", "o", "t", "h", "e", "r">>),
    Location(<<"/", "l", "o", "g", "i", "n">>),
    Location(<<"/", "l", "o", "g", "i", "n", "/">>),
    Location(<<"/", "l", "o", "g", "i", "n", "?", "n", "e", "x", "t", "=", "%", "2", "F">>),
    Location(<<"/", "A", "p", "p", "/", "L", "O", "G", "I", "N", "/", "x">>),
    Location(<<"/", "S", "S", "O", "/", "x">>),
    Location(<<"/", "s", "s", "o">>),
    Location(<<>>) }

InitDetect ==
  /\ variant \in {"index", "modular"}
  /\ headlessLogin = FALSE
  /\ ws = FALSE
  /\ clientCookie = NoCookie
  /\ installed = FALSE
  /\ started = FALSE
  /\ jar = <<>>
  /\ globalRefresh = 0
  /\ activeRefresh = 0
  /\ logins = <<>>
  /\ reqs = [r \in Reqs |-> NoReq]
  /\ uncaught = {}
  /\ call = NoCall
  /\ detected \in [done : {FALSE}, status : DetectStatuses,
                   location : DetectLocations, verdict : {FALSE}]
  /\ matched = NoMatched
  /\ page = NoPage
  /\ GateUnused

\* unauthDetector(status, headers), called directly
DetectCall ==
  /\ ~detected.done
  /\ detected' = [detected EXCEPT
                    !.done = TRUE,
                    !.verdict = unauthDetector(detected.status,
                                               [location |-> detected.location])]
  /\ UNCHANGED <<variant, headlessLogin, ws, clientCookie, installed, started,
                 jar, globalRefresh, activeRefresh, logins, reqs, uncaught,
                 call, matched, page, apiPathsOpt, paths, last>>

NextDetect == DetectCall

SpecDetect == InitDetect /\ [][NextDetect]_vars

\* ------------------------------------------------------------ pathFilter
\* an element of apiPaths: a string, or a RegExp.  The RegExps are literals
\* without the g or y flag (test() keeps no position), anchored at the start
\* like /^\/api/ or not.
StringRule(s) == [kind |-> "string", text |-> s, anchored |-> FALSE]
PatternRule(s, anchored) == [kind |-> "regex", text |-> s, anchored |-> anchored]

\* String.prototype.startsWith
startsWith(s, p) == Len(p) <= Len(s) /\ SubSeq(s, 1, Len(p)) = p

\* the prefix test alone
StringRuleMatches_startsWith(pathname, p) == startsWith(pathname, p)

\* pathname.startsWith(p) &&
\*   (pathname.length === p.length || pathname[p.length] === "/")
StringRuleMatches(pathname, p) ==
  /\ startsWith(pathname, p)
  /\ IF Len(pathname) = Len(p) THEN TRUE ELSE pathname[Len(p) + 1] = "/"

\* p.test(pathname)
PatternTest(p, pathname) ==
  IF p.anchored THEN startsWith(pathname, p.text) ELSE Includes(pathname, p.text)

RuleMatches(p, pathname) ==
  IF p.kind = "string" THEN StringRuleMatches(pathname, p.text)
  ELSE PatternTest(p, pathname)

\* apiPaths.some(...), from element i on
RECURSIVE someFrom(_, _, _)
someFrom(apiPaths, pathname, i) ==
  IF i > Len(apiPaths) THEN FALSE
  ELSE IF RuleMatches(apiPaths[i], pathname) THEN TRUE
  ELSE someFrom(apiPaths, pathname, i + 1)

\* filterFunction / filterFn, the proxy's pathFilter
filterFunction(pathname, apiPaths) == someFrom(apiPaths, pathname, 1)

\* the literal prefix as the default
DefaultApiPaths_literal == <<StringRule(<<"/", "a", "p", "i">>)>>

\* [/^\/api/]
DefaultApiPaths == <<PatternRule(<<"/", "a", "p", "i">>, TRUE)>>

\* normalizeOptions: opts.apiPaths || [/^\/api/]
normalizeApiPaths(opt) == IF opt.present THEN opt.rules ELSE DefaultApiPaths

MatchRules ==
  { StringRule(<<"/", "a", "p", "i">>),
    StringRule(<<"/", "g", "r", "a", "p", "h", "q", "l">>),
    PatternRule(<<"/", "g", "r", "a", "p", "h", "q", "l">>, TRUE),
    PatternRule(<<"/", "a", "p", "i">>, TRUE),
    PatternRule(<<"u", "s", "e", "r", "s">>, FALSE) }

MatchPaths ==
  { <<"/", "a", "p", "i">>,
    <<"/", "a", "p", "i", "/", "u", "s", "e", "r", "s">>,
    <<"/", "a", "p", "i", "k", "e", "y">>,
    <<"/", "g", "r", "a", "p", "h", "q", "l", "/", "a", "n", "y", "t", "h", "i", "n", "g">>,
    <<"/">>,
    <<"/", "a", "p">> }

MatchOptions == {NoApiPaths} \cup {ApiPaths(rs) : rs \in SeqsUpTo(MatchRules, MaxRules)}

InitMatch ==
  /\ variant \in {"index", "modular"}
  /\ headlessLogin = FALSE
  /\ ws = FALSE
  /\ clientCookie = NoCookie
  /\ installed = FALSE
  /\ started = FALSE
  /\ jar = <<>>
  /\ globalRefresh = 0
  /\ activeRefresh = 0
  /\ logins = <<>>
  /\ reqs = [r \in Reqs |-> NoReq]
  /\ uncaught = {}
  /\ call = NoCall
  /\ detected = NoDetected
  /\ matched \in [done : {FALSE}, path : MatchPaths, opt : MatchOptions,
                  result : {FALSE}]
  /\ page = NoPage
  /\ GateUnused

\* the transport asks the pathFilter about a request's path
MatchCall ==
  /\ ~matched.done
  /\ matched' = [matched EXCEPT
                   !.done = TRUE,
                   !.result = filterFunction(matched.path,
                                             normalizeApiPaths(matched.opt))]
  /\ UNCHANGED <<variant, headlessLogin, ws, clientCookie, installed, started,
                 jar, globalRefresh, activeRefresh, logins, reqs, uncaught,
                 call, detected, page, apiPathsOpt, paths, last>>

NextMatch == MatchCall

SpecMatch == InitMatch /\ [][NextMatch]_vars

\* ------------------------------------------------- the injected iframe script
\* getIframeScript's src for the iframe: validateUrl, then iframeParam glued
\* on with "&" when the URL holds a "?" and with "?" otherwise
iframeSrc(validateUrl, iframeParam) ==
  LET paramGlue == IF Includes(validateUrl, <<"?">>) THEN <<"&">> ELSE <<"?">>
  IN validateUrl \o (IF iframeParam # <<>> THEN paramGlue \o iframeParam ELSE <<>>)

PageValidateUrls == {<<"/", "v">>, <<"/", "v", "?", "a">>}
PageIframeParams == {<<>>, <<"s", "=", "1">>}

\* options.ssoCompleteMessage, and what a window may be posted
ssoCompleteMessage == "myToken-set"
PageMessages == {ssoCompleteMessage, "other"}

\* A page before the script runs.  transformIndexHtml injects the script at
\* head-prepend, where document.body is still null; the script text may also
\* run in a document whose body exists.
NewPage(cookie, body, validateUrl, iframeParam) ==
  [ ran |-> FALSE,
    cookie |-> cookie,          \* document.cookie includes authCookieName
    body |-> body,              \* document.body is not null
    validateUrl |-> validateUrl,
    iframeParam |-> iframeParam,
    ready |-> "unset",          \* window.__SSO_READY__: "unset", "pending",
                                \* "resolved"
    iframe |-> "none",          \* "created", "waiting" (for
                                \* DOMContentLoaded), "appended"
    src |-> <<>>,               \* the iframe's src
    listener |-> FALSE,         \* the message listener is registered
    timer |-> FALSE,            \* the 15000 ms timer is armed
    threw |-> FALSE,            \* the script ended in a TypeError
    msgs |-> 0 ]                \* message events delivered so far

InitPage ==
  /\ variant \in {"index", "modular"}
  /\ headlessLogin = FALSE
  /\ ws = FALSE
  /\ clientCookie = NoCookie
  /\ installed = FALSE
  /\ started = FALSE
  /\ jar = <<>>
  /\ globalRefresh = 0
  /\ activeRefresh = 0
  /\ logins = <<>>
  /\ reqs = [r \in Reqs |-> NoReq]
  /\ uncaught = {}
  /\ call = NoCall
  /\ detected = NoDetected
  /\ matched = NoMatched
  /\ page \in {NewPage(c, b, u, p) : c \in BOOLEAN, b \in BOOLEAN,
                                     u \in PageValidateUrls, p \in PageIframeParams}
  /\ GateUnused

\* what the script of part_000 leaves: document.body.appendChild(f) comes
\* before the listener and the timer, and raises TypeError when
\* document.body is null
scriptModular(pg) ==
  IF pg.cookie THEN [pg EXCEPT !.ran = TRUE]
  ELSE IF ~pg.body
  THEN [pg EXCEPT !.ran = TRUE, !.ready = "pending", !.iframe = "created",
                  !.src = iframeSrc(pg.validateUrl, pg.iframeParam),
                  !.threw = TRUE]
  ELSE [pg EXCEPT !.ran = TRUE, !.ready = "pending", !.iframe = "appended",
                  !.src = iframeSrc(pg.validateUrl, pg.iframeParam),
                  !.listener = TRUE, !.timer = TRUE]

\* what the script of index.ts leaves: append() waits for DOMContentLoaded
\* when document.body is null
scriptIndex(pg) ==
  IF pg.cookie THEN [pg EXCEPT !.ran = TRUE]
  ELSE [pg EXCEPT !.ran = TRUE, !.ready = "pending",
                  !.iframe = IF pg.body THEN "appended" ELSE "waiting",
                  !.src = iframeSrc(pg.validateUrl, pg.iframeParam),
                  !.listener = TRUE, !.timer = TRUE]

PageVarsOnly ==
  UNCHANGED <<variant, headlessLogin, ws, clientCookie, installed, started,
              jar, globalRefresh, activeRefresh, logins, reqs, uncaught,
              call, detected, matched, apiPathsOpt, paths, last>>

\* the browser runs the injected script
RunScript ==
  /\ ~page.ran
  /\ page' = IF variant = "index" THEN scriptIndex(page) ELSE scriptModular(page)
  /\ PageVarsOnly

\* the document is parsed: document.body exists, and index.ts's append runs
DomContentLoaded ==
  /\ page.ran
  /\ ~page.body
  /\ page' = [page EXCEPT !.body = TRUE,
                          !.iframe = IF @ = "waiting" THEN "appended" ELSE @]
  /\ PageVarsOnly

\* a message event reaches the window; the listener resolves the promise
\* when e.data is the configured string
Message(data) ==
  /\ page.ran
  /\ page.msgs < MaxMsgs
  /\ page' = [page EXCEPT
                !.msgs = @ + 1,
                !.ready = IF page.listener /\ data = ssoCompleteMessage
                          THEN "resolved" ELSE @]
  /\ PageVarsOnly

\* the 15000 ms timer fires: index.ts resolves; part_000 resolves when
\* !window.__SSO_READY__.isResolved, a property no promise has
TimerFires ==
  /\ page.timer
  /\ page' = [page EXCEPT !.timer = FALSE, !.ready = "resolved"]
  /\ PageVarsOnly

NextPage ==
  \/ RunScript
  \/ DomContentLoaded
  \/ \E data \in PageMessages : Message(data)
  \/ TimerFires

SpecPage == InitPage /\ [][NextPage]_vars

\* The browser runs the script, finishes parsing and fires armed timers;
\* nothing obliges the iframe to post a message.
FairSpecPage ==
  /\ SpecPage
  /\ WF_vars(RunScript)
  /\ WF_vars(DomContentLoaded)
  /\ WF_vars(TimerFires)

\* ------------------------------------------- the middleware behind its pathFilter
\* opts.apiPaths: left out, or the one string rule "/api"
GateOptions == {NoApiPaths, ApiPaths(<<StringRule(<<"/", "a", "p", "i">>)>>)}

\* paths of the requests the dev server receives
GatePaths == {<<"/", "a", "p", "i", "/", "u", "s", "e", "r", "s">>, <<"/", "a", "p", "i", "k", "e", "y">>}

\* what the validation endpoint and the target origin answer here: the
\* login succeeds with a session cookie or fails; a response is a 200 or a
\* 401, with a cookie or without
GateAxiosOutcomes ==
  { [kind |-> "response", setCookie |-> Header(<< <<"s", "=", "1", ";", " ", "P", "=", "/">> >>)],
    [kind |-> "error", setCookie |-> NoHeader] }
GateStatuses == {st \in UpstreamStatuses : st.location = NoLocation}
GateSetCookies == {NoHeader, Header(<< <<"a", "=", "1">> >>)}

InitGate ==
  /\ variant \in {"index", "modular"}
  /\ headlessLogin \in BOOLEAN
  /\ ws = FALSE
  /\ clientCookie = NoCookie
  /\ installed = FALSE
  /\ started = FALSE
  /\ jar = <<>>
  /\ globalRefresh = 0
  /\ activeRefresh = 0
  /\ logins = <<>>
  /\ reqs = [r \in Reqs |-> NoReq]
  /\ uncaught = {}
  /\ call = NoCall
  /\ detected = NoDetected
  /\ matched = NoMatched
  /\ page = NoPage
  /\ apiPathsOpt \in GateOptions
  /\ paths = NoPaths
  /\ last = NoLast

\* a pathFilter that lets every path through
shouldProxy_all(pathname, opt) == TRUE

\* the middleware's test of a request: pathFilter(pathname, req) over the
\* normalized apiPaths
shouldProxy(pathname, opt) == filterFunction(pathname, normalizeApiPaths(opt))

\* The installed middleware is handed a request: on a path the pathFilter
\* accepts it makes the outbound request and calls the proxyReq hook;
\* any other request it passes on with next(), and no hook runs for it.
Arrive(r, pathname) ==
  /\ Idle
  /\ installed
  /\ NextFree(r)
  /\ paths' = [paths EXCEPT ![r] = pathname]
  /\ IF shouldProxy(pathname, apiPathsOpt)
     THEN proxyReqHook(r)
     ELSE /\ reqs' = [reqs EXCEPT ![r] = [@ EXCEPT !.chan = "next"]]
          /\ UNCHANGED <<options, installed, started, jar,
                         globalRefresh, activeRefresh, logins, uncaught>>
  /\ UNCHANGED last

NextGate ==
  \/ ConfigureServer
  \/ \E k \in 1..MaxLogins, out \in GateAxiosOutcomes : AxiosSettles(k, out)
  \/ \E r \in Reqs, pathname \in GatePaths : Arrive(r, pathname)
  \/ \E r \in Reqs : Compose(r)
  \/ \E r \in Reqs : TransportSend(r)
  \/ \E r \in Reqs, st \in GateStatuses, sc \in GateSetCookies : ProxyRes(r, st, sc)

SpecGate == InitGate /\ [][NextGate]_vars

\* ------------------------------------------------------------- on.proxyRes
\* what the target origin answers here: a 200 or a 401; no cookie, a session
\* cookie, its rotation, or a list whose first entry has no "="
ResStatuses == {st \in UpstreamStatuses : st.location = NoLocation}
ResSetCookies ==
  { NoHeader,
    Header(<< <<"a", "=", "1">> >>),
    Header(<< <<"a", "=", "2">> >>),
    Header(<< <<"b", "a", "d">>, <<"a", "=", "1">> >>) }

\* login enabled, no client cookie, no path or response kept yet
InitRes ==
  /\ variant \in {"index", "modular"}
  /\ headlessLogin = TRUE
  /\ ws = FALSE
  /\ clientCookie = NoCookie
  /\ installed = FALSE
  /\ started = FALSE
  /\ jar = <<>>
  /\ globalRefresh = 0
  /\ activeRefresh = 0
  /\ logins = <<>>
  /\ reqs = [r \in Reqs |-> NoReq]
  /\ uncaught = {}
  /\ call = NoCall
  /\ PureUnused

\* on.proxyRes for request r, the response kept: its status and Set-Cookie,
\* and the store, the gate and the number of logins the hook found
Respond(r, status, setCookie) ==
  /\ proxyResHook(r, status, setCookie)
  /\ last' = [r |-> r, status |-> status, setCookie |-> setCookie,
              jar |-> jar, active |-> activeRefresh, n |-> Len(logins)]
  /\ UNCHANGED paths

NextRes ==
  \/ ConfigureServer
  \/ \E k \in 1..MaxLogins, out \in GateAxiosOutcomes : AxiosSettles(k, out)
  \/ \E r \in Reqs : ProxyReq(r)
  \/ \E r \in Reqs : Compose(r)
  \/ \E r \in Reqs : TransportSend(r)
  \/ \E r \in Reqs, st \in ResStatuses, sc \in ResSetCookies : Respond(r, st, sc)
  \/ \E r \in Reqs : Deliver(r)

SpecRes == InitRes /\ [][NextRes]_vars

\* the same steps, the target origin's cookies well-formed
NextDeliver ==
  \/ ConfigureServer
  \/ \E k \in 1..MaxLogins, out \in GateAxiosOutcomes : AxiosSettles(k, out)
  \/ \E r \in Reqs : ProxyReq(r)
  \/ \E r \in Reqs : Compose(r)
  \/ \E r \in Reqs : TransportSend(r)
  \/ \E r \in Reqs, st \in ResStatuses, sc \in GateSetCookies : Respond(r, st, sc)
  \/ \E r \in Reqs : Deliver(r)

SpecDeliver == InitRes /\ [][NextDeliver]_vars


\* ------------------------------------------------------------- properties
RefreshLogins == {k \in 1..Len(logins) : logins[k].label = "refresh"}

\* the proxyRes hook has just classified request r's response as unauthenticated
UnauthHandled(r) ==
  reqs[r].res = "open" /\ reqs'[r].res = "received" /\ reqs'[r].unauth

\* C1 (singleflight): an unauthenticated response handled while the gate is
\* idle starts exactly one login, labelled "refresh", and records it in the
\* gate; one handled while that login is in flight starts no login and leaves
\* the gate on the same attempt.
Singleflight ==
  [][\A r \in Reqs :
       UnauthHandled(r) =>
         IF activeRefresh # 0
         THEN logins' = logins /\ activeRefresh' = activeRefresh
         ELSE /\ Len(logins') = Len(logins) + 1
              /\ logins'[Len(logins')].label = "refresh"
              /\ headlessLogin => activeRefresh' = Len(logins')]_vars

\* C1 witness: two unauthenticated responses have been handled, one refresh
\* login was started for both and it is still in flight
TwoTriggersOneLogin ==
  /\ activeRefresh \in Pending
  /\ Cardinality(RefreshLogins) = 1
  /\ Cardinality({r \in Reqs : reqs[r].unauth}) >= 2

\* C2: at any time at most one login, startup or reactive, is in flight.
AtMostOneRefresh == Cardinality(Pending) <= 1

\* C2 witness: a request issued after a reactive refresh began has had its
\* own unauthenticated response handled while that refresh is still in flight
TriggerDuringRefresh ==
  /\ activeRefresh \in Pending
  /\ logins[1].state = "settled"
  /\ \E r \in Reqs : reqs[r].unauth /\ reqs[r].lastLogin = activeRefresh

\* C3 (refresh-then-forward): a request whose proxyReq hook ran while a login
\* was in flight has its Cookie header composed only after that login settled.
RefreshThenForward ==
  \A r \in Reqs :
    reqs[r].pc = "composed" =>
      \A k \in reqs[r].during : logins[k].state = "settled"

\* C4: the transport sends no request whose gate-await and cookie composition
\* are still pending.
HeldUntilComposed == \A r \in Reqs : reqs[r].sent => reqs[r].pc # "awaitGate"

\* the Cookie header h holds the pair name=value
Carries(h, pair) ==
  /\ h.set
  /\ \E i \in 1..Len(split(h.v, ";")) :
       trim(split(h.v, ";")[i]) = pair[1] \o <<"=">> \o pair[2]

\* C5 (end to end): a request sent upstream carries, for every cookie that the
\* last login started before the request was issued (the startup login, or the
\* refresh an unauthenticated response triggered) obtained, the value that
\* login or a later login obtained for it.
EndToEnd ==
  \A r \in Reqs :
    (reqs[r].sent /\ reqs[r].lastLogin > 0) =>
      LET k == reqs[r].lastLogin
      IN \A i \in 1..Len(logins[k].got) :
           \E k2 \in k..Len(logins) : \E j \in 1..Len(logins[k2].got) :
             /\ logins[k2].got[j][1] = logins[k].got[i][1]
             /\ Carries(reqs[r].header, logins[k2].got[j])

\* C6: the gate is never left Refreshing by a login that has settled: a gate
\* variable that is set names a login still in flight.
GateIdleOnceSettled ==
  /\ activeRefresh # 0 => activeRefresh \in Pending
  /\ globalRefresh # 0 => globalRefresh \in Pending

\* C6 witness: a refresh failed, the gate went back to idle, and a later
\* unauthenticated response has started the next refresh
RefreshAfterFailedRefresh ==
  \E k \in RefreshLogins :
    /\ logins[k].outcome = "failed"
    /\ activeRefresh \in Pending
    /\ k < activeRefresh

\* C7 (liveness of the gate): every login that is started settles, whether or
\* not the validation endpoint answers.
RefreshEventuallySettles ==
  \A k \in 1..MaxLogins : (k \in Pending) ~> (k \notin Pending)

\* C8: a login that fails completes without raising, logs the failure, clears
\* the gate and leaves the cookie store as it was.
FailedRefreshContained ==
  [][\A k \in Pending :
       (logins'[k].state = "settled" /\ logins'[k].outcome = "failed") =>
         /\ uncaught' = uncaught
         /\ activeRefresh' = 0 /\ globalRefresh' = 0
         /\ jar' = jar]_vars

\* C9: no hook of the proxy lets an exception or a rejection escape.
NoUncaughtFault == uncaught = {}

\* the name=value part of a Set-Cookie value
NameValue(line) == split(line, ";")[1]

\* C10 (malformed-entry tolerance): a storeCookies call does not raise; every
\* entry with text before an "=" is stored under that name, every entry
\* without "=" stores nothing, and ["bad", "a=1"] into an empty store leaves
\* exactly {a: 1}.
MalformedEntriesSkipped ==
  call.n > 0 =>
    LET lines == call.raw.lines
        named == {i \in 1..Len(lines) : indexOf(NameValue(lines[i]), "=") > 0}
        NameOf(i) == trim(slice(NameValue(lines[i]), 0, indexOf(NameValue(lines[i]), "=")))
    IN /\ ~call.threw
       /\ \A i \in named : JarHas(call.after, NameOf(i))
       /\ \A j \in 1..Len(call.after) :
            \/ JarHas(call.before, call.after[j][1])
            \/ \E i \in named : NameOf(i) = call.after[j][1]
       /\ (call.before = <<>>
             /\ call.raw = Header(<< <<"b", "a", "d">>, <<"a", "=", "1">> >>))
            => call.after = << <<<<"a">>, <<"1">>>> >>

\* the cookie a Set-Cookie value names: it has one when its name=value part
\* holds text before its first "="; the name is that text and the value all
\* of the text after that "=", both without surrounding blanks
HasPair(line) == indexOf(NameValue(line), "=") > 0
CookieName(line) == trim(slice(NameValue(line), 0, indexOf(NameValue(line), "=")))
CookieValue(line) ==
  trim(slice(NameValue(line), indexOf(NameValue(line), "=") + 1, Len(NameValue(line))))

\* the value the store holds for name k
ValueIn(j, k) == j[CHOOSE i \in 1..Len(j) : j[i][1] = k][2]

\* C11 (last write wins, idempotence): after a merge the store holds no name
\* twice; every name a merged Set-Cookie value carries maps to the value of
\* the last merged value carrying it; every other name keeps its value;
\* merging the header that was merged just before changes nothing; and
\* a=1 then a=2 leaves a=2.
LastWriteWins ==
  call.n > 0 =>
    LET lines == call.raw.lines
        pairs == {i \in 1..Len(lines) : HasPair(lines[i])}
        IsLast(i) == \A j \in pairs : j > i => CookieName(lines[j]) # CookieName(lines[i])
    IN /\ \A i, j \in 1..Len(call.after) :
            call.after[i][1] = call.after[j][1] => i = j
       /\ \A i \in pairs :
            /\ JarHas(call.after, CookieName(lines[i]))
            /\ IsLast(i) => ValueIn(call.after, CookieName(lines[i])) = CookieValue(lines[i])
       /\ \A j \in 1..Len(call.before) :
            (\A i \in pairs : CookieName(lines[i]) # call.before[j][1]) =>
              /\ JarHas(call.after, call.before[j][1])
              /\ ValueIn(call.after, call.before[j][1]) = call.before[j][2]
       /\ (call.n >= 2 /\ call.raw = call.prev) => call.after = call.before
       /\ (call.prev = Header(<< <<"a", "=", "1">> >>)
             /\ call.raw = Header(<< <<"a", "=", "2">> >>))
            => ValueIn(call.after, <<"a">>) = <<"2">>

\* C12 (first ";" then first "="): a merge of one Set-Cookie value that names
\* a cookie stores, under the text before its first "=", all of the text
\* between that "=" and the first ";" (blanks around either aside), and
\* stores nothing for the attributes; "t=x==; P=/" stores t = "x==".
FirstEqualsSplit ==
  (call.n > 0 /\ Len(call.raw.lines) = 1 /\ HasPair(call.raw.lines[1])) =>
    LET line == call.raw.lines[1]
    IN /\ JarHas(call.after, CookieName(line))
       /\ ValueIn(call.after, CookieName(line)) = CookieValue(line)
       /\ \A j \in 1..Len(call.after) :
            JarHas(call.before, call.after[j][1]) \/ call.after[j][1] = CookieName(line)
       /\ line = <<"t", "=", "x", "=", "=", ";", " ", "P", "=", "/">>
            => ValueIn(call.after, <<"t">>) = <<"x", "=", "=">>

\* C13 (header composition): the Cookie header the hook leaves on a request
\* is the client's header, when it is not empty, followed by the store's
\* name=value pairs in the store's order, joined by "; "; it holds every pair
\* of the store; and with nothing to send the hook sets no header.
HeaderComposition ==
  \A r \in Reqs :
    reqs[r].pc = "composed" =>
      LET client == IF clientCookie.set /\ clientCookie.v # <<>>
                    THEN <<clientCookie.v>> ELSE <<>>
          pairs == [i \in 1..Len(jar) |-> jar[i][1] \o <<"=">> \o jar[i][2]]
          expected == join(client \o pairs, <<";", " ">>)
      IN IF client \o pairs = <<>>
         THEN reqs[r].header = clientCookie
         ELSE /\ reqs[r].header = Cookie(expected)
              /\ \A i \in 1..Len(jar) : Carries(reqs[r].header, jar[i])

\* C13 witness: a header composed from a client cookie and a store of two
\* cookies, and one composed from the store alone
ComposedFromBoth ==
  /\ Len(jar) = 2
  /\ clientCookie.set /\ clientCookie.v # <<>>
  /\ \E r \in Reqs : reqs[r].pc = "composed" /\ Len(split(reqs[r].header.v, ";")) = 3

\* the detector was called with this status and this Location
DetectedOn(status, location) ==
  detected.done /\ detected.status = status /\ detected.location = location

DetectsLoginWithoutSlash ==
  ( /\ detected.done
    /\ detected.status = 302
    /\ detected.location.present
    /\ \/ Includes(LowerStr(detected.location.v), <<"/", "l", "o", "g", "i", "n">>)
       \/ Includes(LowerStr(detected.location.v), <<"/", "s", "s", "o", "/">>) )
  => detected.verdict

\* the text s begins with the text p
Begins(s, p) == Len(s) >= Len(p) /\ SubSeq(s, 1, Len(p)) = p

\* the pathFilter was asked about this path under these configured rules
MatchedOn(path, rules) ==
  matched.done /\ matched.opt = ApiPaths(rules) /\ matched.path = path

DefaultRuleIsLiteralPrefix ==
  (matched.done /\ ~matched.opt.present) =>
    matched.result =
      (\/ matched.path = <<"/", "a", "p", "i">>
       \/ Begins(matched.path, <<"/", "a", "p", "i", "/">>))

\* C17 as the code has it: with apiPaths unconfigured the one rule is the
\* pattern /^\/api/, and a path is proxied exactly when it begins with
\* "/api", "/apikey" included.
DefaultRuleIsPattern ==
  (matched.done /\ ~matched.opt.present) =>
    matched.result = Begins(matched.path, <<"/", "a", "p", "i">>)

\* C17 witness: "/apikey" was proxied under the default rules
DefaultProxiesApikey ==
  matched.done /\ ~matched.opt.present /\ matched.path = <<"/", "a", "p", "i", "k", "e", "y">> /\ matched.result

\* the error hook has just acted on request r: it replied, destroyed the
\* socket, or raised out of writeHead
ErrorHandled(r) ==
  \/ reqs'[r].res \in {"sent500", "destroyed"} /\ reqs'[r].res # reqs[r].res
  \/ /\ reqs[r].res = "headersSent"
     /\ "error: ERR_HTTP_HEADERS_SENT" \in uncaught' \ uncaught

\* C18 (transport error frame): a transport error on request r reaches r
\* alone, as an error reply on its response or the destruction of its
\* socket; nothing escapes the hook, the request is not sent again, no login
\* starts, and the cookie store, the gate and every other request stay as
\* they were.
TransportErrorContained ==
  [][\A r \in Reqs :
       ErrorHandled(r) =>
         /\ reqs'[r] = [reqs[r] EXCEPT
                          !.res = IF reqs[r].chan = "ws" THEN "destroyed" ELSE "sent500"]
         /\ uncaught' = uncaught
         /\ \A q \in Reqs \ {r} : reqs'[q] = reqs[q]
         /\ logins' = logins
         /\ jar' = jar
         /\ activeRefresh' = activeRefresh /\ globalRefresh' = globalRefresh]_vars

\* C19 (headless login disabled): with headlessLogin false every login, at
\* startup and on an unauthenticated response, has returned at once without
\* a request to the validation endpoint and without a failure, and the gate
\* is idle; the step that runs it changes the store by no more than the
\* merge of the response that triggered it.
DisabledLoginIsNoOp ==
  /\ [](~headlessLogin =>
          /\ Pending = {}
          /\ activeRefresh = 0 /\ globalRefresh = 0
          /\ \A k \in 1..Len(logins) :
               logins[k] = Login(logins[k].label, "settled", "noop", <<>>))
  /\ [][(~headlessLogin /\ Len(logins') > Len(logins)) =>
          IF logins'[Len(logins')].label = "startup"
          THEN jar' = jar
          ELSE \E sc \in UpstreamSetCookies :
                 jar' = StoreCookiesOf(variant, jar, sc).jar]_vars

\* C19 witness: with headlessLogin false the startup login and a refresh
\* after an unauthenticated response have both run
DisabledRefreshTriggered ==
  /\ ~headlessLogin
  /\ Len(logins) >= 2
  /\ logins[1].label = "startup"
  /\ \E r \in Reqs : reqs[r].unauth

\* C20 (iframe script fails open): once the script has run on a page without
\* the auth cookie, window.__SSO_READY__ is eventually resolved, whether
\* document.body existed when it ran or not; on a page with the cookie the
\* script leaves nothing behind.
IframeFailOpen ==
  /\ (page.ran /\ ~page.cookie) ~> (page.ready = "resolved")
  /\ []((page.ran /\ page.cookie) =>
          /\ page.ready = "unset" /\ page.iframe = "none"
          /\ ~page.listener /\ ~page.timer)

\* rule p matches the path: a string rule when the path is the string or
\* goes on with "/" after it, a pattern when it matches
Hits(p, path) ==
  IF p.kind = "string"
  THEN path = p.text \/ Begins(path, p.text \o <<"/">>)
  ELSE IF p.anchored THEN Begins(path, p.text)
  ELSE \E i \in 0..(Len(path) - Len(p.text)) :
         SubSeq(path, i + 1, i + Len(p.text)) = p.text

\* the rules in force: the configured ones, or the default pattern /^\/api/
RulesInForce ==
  IF apiPathsOpt.present THEN apiPathsOpt.rules
  ELSE <<[kind |-> "regex", text |-> <<"/", "a", "p", "i">>, anchored |-> TRUE]>>

\* some rule in force matches the path of request r
OnApiPath(r) == \E i \in 1..Len(RulesInForce) : Hits(RulesInForce[i], paths[r])

\* C21 (path gating): a request the middleware was handed goes through the
\* interceptor exactly when its path matches a rule; one that matches none
\* is never sent to the target origin, gets no Cookie header from the
\* store and no response hook, and the step that hands it on changes
\* neither the store nor the gate and starts no login.
PathGating ==
  /\ [](\A r \in Reqs :
          /\ reqs[r].chan = "http" => OnApiPath(r)
          /\ (paths[r] # <<>> /\ ~OnApiPath(r)) =>
               /\ reqs[r].chan = "next"
               /\ ~reqs[r].sent
               /\ reqs[r].pc = "none"
               /\ reqs[r].header = NoCookie
               /\ reqs[r].res = "open")
  /\ [][\A r \in Reqs :
          (reqs[r].chan = "none" /\ reqs'[r].chan = "next") =>
            /\ jar' = jar
            /\ logins' = logins
            /\ activeRefresh' = activeRefresh /\ globalRefresh' = globalRefresh]_vars

\* C21 witness: "/apikey" was handed on under the rule "/api" while a
\* request on "/api/users" went upstream with the store's cookies
ApikeyHandedOn ==
  \E r, q \in Reqs :
    /\ reqs[r].chan = "next" /\ paths[r] = <<"/", "a", "p", "i", "k", "e", "y">>
    /\ reqs[q].chan = "http" /\ reqs[q].sent /\ reqs[q].pc = "composed"
    /\ jar # <<>>


\* the proxyRes hook has just run for request r
Responded(r) == reqs[r].res = "open" /\ reqs'[r].res = "received"

\* C22 (merge on every response): whatever the status of a proxied response,
\* once its hook has run the store holds every cookie its Set-Cookie values
\* name, with the value of the last one naming it, and every other cookie
\* as before; a login the hook starts is started on the merged store.
MergedOnEveryResponse ==
  [][\A r \in Reqs :
       Responded(r) =>
         LET lines == last'.setCookie.lines
             pairs == {i \in 1..Len(lines) : HasPair(lines[i])}
             IsLast(i) == \A j \in pairs : j > i => CookieName(lines[j]) # CookieName(lines[i])
         IN /\ last'.r = r /\ last'.jar = jar
            /\ \A i \in pairs :
                 /\ JarHas(jar', CookieName(lines[i]))
                 /\ IsLast(i) => ValueIn(jar', CookieName(lines[i])) = CookieValue(lines[i])
            /\ \A j \in 1..Len(jar) :
                 (\A i \in pairs : CookieName(lines[i]) # jar[j][1]) =>
                   /\ JarHas(jar', jar[j][1])
                   /\ ValueIn(jar', jar[j][1]) = jar[j][2]]_vars

\* C22: a 200 response has rotated the cookie a=1 to a=2 in the store
RotatedOn200 ==
  /\ last.r # 0 /\ last.status.statusCode = 200
  /\ last.jar = << <<<<"a">>, <<"1">>>> >>
  /\ jar = << <<<<"a">>, <<"2">>>> >>


\* C24 (no cooldown): a response the detector classifies as unauthenticated
\* starts a login labelled "refresh" and records it in the gate whenever the
\* gate is idle, whatever happened to the refresh before it; when the gate
\* holds a refresh in flight it starts none and leaves the gate alone.
NoCooldown ==
  [][\A r \in Reqs :
       (Responded(r) /\ unauthDetector(last'.status.statusCode, last'.status)) =>
         IF activeRefresh = 0
         THEN /\ Len(logins') = Len(logins) + 1
              /\ logins'[Len(logins')].label = "refresh"
              /\ logins'[Len(logins')].state = "pending"
              /\ activeRefresh' = Len(logins')
         ELSE logins' = logins /\ activeRefresh' = activeRefresh]_vars

\* C24: the response handled last was a 401 that found the gate idle just
\* after a refresh had failed, and it started the next refresh
RetriggeredAfterFailure ==
  /\ last.r # 0 /\ last.status.statusCode = 401 /\ last.active = 0
  /\ last.n >= 2
  /\ logins[last.n].label = "refresh" /\ logins[last.n].outcome = "failed"
  /\ Len(logins) = last.n + 1
  /\ logins[last.n + 1].label = "refresh"


\* C23 (the response is not held): the step in which the hook classifies a
\* response as unauthenticated and starts a refresh also returns the
\* response to the transport, with the refresh still in flight; from then on
\* the transport can write it to the client whatever the state of the gate;
\* and a request whose response has arrived is never composed or sent again.
DeliveredWithoutWaiting ==
  /\ [](\A r \in Reqs :
          (reqs[r].res = "received" /\ Idle) => ENABLED Deliver(r))
  /\ [][\A r \in Reqs :
          /\ (UnauthHandled(r) /\ activeRefresh = 0) =>
                /\ activeRefresh' \in Pending'
                /\ logins'[activeRefresh'].state = "pending"
          /\ reqs[r].res # "open" =>
                /\ reqs'[r].sent = reqs[r].sent
                /\ reqs'[r].header = reqs[r].header
                /\ reqs'[r].pc = reqs[r].pc
                /\ reqs'[r].chan = reqs[r].chan]_vars

\* C23: a 401 response has been written to the client while the refresh it
\* started is still waiting for the validation endpoint
DeliveredDuringRefresh ==
  \E r \in Reqs :
    /\ reqs[r].res = "headersSent" /\ reqs[r].unauth
    /\ last.r = r /\ last.active = 0
    /\ activeRefresh = last.n + 1
    /\ activeRefresh \in Pending


\* the logins configureServer started
StartupLogins == {k \in 1..Len(logins) : logins[k].label = "startup"}

\* C25 (startup ordering): a started server has made exactly one startup
\* login, its first; the middleware is installed, and any request is handed
\* to the proxy or sent upstream, only once that login has settled; until the
\* first request's Cookie header is composed nothing but the startup login
\* has written the store, and the header is composed from that store.
StartupOrdering ==
  /\ [](/\ Cardinality(StartupLogins) = (IF started THEN 1 ELSE 0)
        /\ started => StartupLogins = {1}
        /\ installed => (started /\ logins[1].state = "settled")
        /\ \A r \in Reqs :
             (reqs[r].chan # "none" \/ reqs[r].sent) =>
               (installed /\ logins[1].state = "settled")
        /\ (started /\ reqs[1].pc \in {"none", "awaitGate"}) =>
             /\ Len(logins) = 1
             /\ \A r \in Reqs : reqs[r].res = "open"
             /\ logins[1].outcome = "ok" => jar = logins[1].got
             /\ logins[1].state = "pending" => jar = <<>>)
  /\ [][(reqs[1].pc = "awaitGate" /\ reqs'[1].pc = "composed") =>
          LET combo == Combine(clientCookie, jarToString(jar))
          IN reqs'[1].header = IF combo # <<>> THEN Cookie(combo) ELSE clientCookie]_vars

\* C25: the first request went upstream with the cookie the startup login
\* obtained, before any refresh
FirstRequestSeeded ==
  /\ Len(logins) = 1 /\ logins[1].outcome = "ok"
  /\ reqs[1].pc = "composed" /\ reqs[1].sent
  /\ Carries(reqs[1].header, <<<<"s">>, <<"1">>>>)


\* the name of the i-th cookie of a Cookie header's text
NameAt(text, i) ==
  LET part == trim(split(text, ";")[i])
  IN IF indexOf(part, "=") >= 0 THEN trim(slice(part, 0, indexOf(part, "="))) ELSE part

\* C26 (no duplicate names): the Cookie header the hook leaves on a request
\* holds no cookie name twice, also when the client's header carries a name
\* that the store holds.
NoDuplicateNames ==
  \A r \in Reqs :
    (reqs[r].pc = "composed" /\ reqs[r].header.set) =>
      \A i, j \in 1..Len(split(reqs[r].header.v, ";")) :
        NameAt(reqs[r].header.v, i) = NameAt(reqs[r].header.v, j) => i = j

\* C26: a header was composed from the client's a=9 and a store that holds a
ClientNameInStore ==
  /\ clientCookie = Cookie(<<"a", "=", "9">>)
  /\ JarHas(jar, <<"a">>)
  /\ \E r \in Reqs : reqs[r].pc = "composed"
=============================================================================
